---- MODULE Spec2Model ----
(***************************************************************************)
(* A model of the handle-lifetime and call-marshalling layer of v8go.cc.   *)
(*                                                                         *)
(* One Isolate is modelled over its whole life: the m_ctx records (the     *)
(* internal context of the Isolate and the contexts the host creates),     *)
(* the m_value records every entry point allocates, the vals vector of     *)
(* each m_ctx, and the result each entry point hands back.                 *)
(* The V8 engine is the environment: a script is given by what it does     *)
(* (yields a value, throws, fails to compile, calls a native function).    *)
(* A pointer is the index of its record; index 0 is nullptr.  A record     *)
(* that was deleted stays in the model marked "freed": an access through   *)
(* such a pointer is undefined behaviour and is modelled as the choice     *)
(* between the outcomes a build produces for it.                           *)
(***************************************************************************)
EXTENDS Integers, Sequences, FiniteSets, TLC

\* ---------------------------------------------------------------- bounds
MaxCtx == 2     \* contexts the host creates with NewContext
MaxVals == 3    \* m_value records allocated over the run
MaxArgs == 1    \* positional arguments of a script call of a native function
MaxHeapVals == 5  \* m_value records allocated over a run of promise operations
MaxTmpls == 2   \* m_template records the host creates
MaxProps == 1   \* properties set on one template

VARIABLES iso, ctxs, vals, last,
          termination, running, promises, tmpls, locker, pc

\* the state of the V8 engine and of the host threads besides the records:
\* termination says whether TerminateExecution was called on the Isolate,
\* whether its interrupt request is pending and whether the termination
\* exception is unwinding the script, running is the ctx of the RunScript
\* that is in flight (-1 when none), promises the promise objects
\* of the heap, tmpls the m_template records, locker the thread that holds the v8::Locker of the
\* Isolate (0 when none) and pc where each host thread stands
engine == <<termination, running, promises, tmpls, locker, pc>>

vars == <<iso, ctxs, vals, last, termination, running, promises, tmpls, locker, pc>>

\* ------------------------------------------------------------ C pointers
nullptr == 0

\* a const char*: <<>> is the null pointer, <<s>> points to a copy of s
NullStr == <<>>

\* the id of the m_ctx NewIsolate stores with iso->SetData(0, ctx)
isolateInternalContext == 0

CtxIds == 0..MaxCtx
UserCtxIds == 1..MaxCtx

\* ------------------------------------------------------------ JS values
JSUndefined == [k |-> "undefined", n |-> 0, c |-> 0]
JSInt(i) == [k |-> "int", n |-> i, c |-> 0]
JSString(i) == [k |-> "string", n |-> i, c |-> 0]
JSGlobal(c) == [k |-> "global", n |-> 0, c |-> c]
JSObject(c) == [k |-> "object", n |-> 0, c |-> c]
JSFunction(c, cb) == [k |-> "function", n |-> cb, c |-> c]
JSSymbol(idx) == [k |-> "symbol", n |-> idx, c |-> 0]
JSPromise(id, c) == [k |-> "promise", n |-> id, c |-> c]
JSBool(b) == [k |-> "boolean", n |-> IF b THEN 1 ELSE 0, c |-> 0]
JSTemplate(id) == [k |-> "template", n |-> id, c |-> 0]

\* Value::IsName: a string or a symbol
IsName(v) == v.k \in {"string", "symbol"}

\* an object of the heap, as opposed to a primitive or a template
IsJSReceiver(v) == v.k \in {"global", "object", "function", "promise"}

\* -------------------------------------------------------------- records
\* struct m_ctx {iso, vals, ptr}; ref is the integer NewContext stores in
\* embedder slot 1 of the V8 context, fns the callback refs of the native
\* functions the global template gave the V8 context
NoCtx == [st |-> "unalloc", ptr |-> "empty", vals |-> <<>>, ref |-> 0, fns |-> {}]
FreedCtx(r) == [st |-> "freed", ptr |-> "reset", vals |-> <<>>, ref |-> r.ref, fns |-> r.fns]

\* struct m_value {iso, ctx, ptr}; v is the JS value ptr refers to.  The
\* ctx and v of a freed record are kept only to say which context it
\* was made under
m_value(c, v) == [st |-> "live", ctx |-> c, ptr |-> "set", v |-> v]
FreedVal(r) == [st |-> "freed", ctx |-> r.ctx, ptr |-> "reset", v |-> r.v]

\* struct RtnError {msg, location, stack}
NoError == [msg |-> NullStr, location |-> NullStr, stack |-> NullStr]

Ev(e, id) == [e |-> e, id |-> id]

\* what the last entry point was given and what it returned
Outcome(op, c, w) ==
  [op |-> op, ctx |-> c, val |-> w, value |-> nullptr, error |-> NoError,
   ret |-> JSUndefined, fault |-> "none", trace |-> <<>>, dispatch |-> <<>>,
   tc |-> <<>>, arg |-> 0, arg2 |-> 0]

\* the process has not aborted and its heap is not corrupted
Running == last.fault = "none"

LiveVals(vs) == {w \in 1..Len(vs) : vs[w].st = "live"}

\* ------------------------------------------------------- Handle Registry
\* tracked_value without the push_back
tracked_value_untracked(cs, c, w) == cs

\* tracked_value inserting at the front of the vector
tracked_value_front(cs, c, w) == [cs EXCEPT ![c].vals = <<w>> \o @]

\* tracked_value: ctx->vals.push_back(val); return val
tracked_value(cs, c, w) == [cs EXCEPT ![c].vals = Append(@, w)]

\* new m_value; val->ctx = ctx; val->ptr = Persistent(iso, v);
\* tracked_value(ctx, val): the pattern of every value-returning entry point
Wrap(S, c, v) ==
  LET w == Len(S.vals) + 1
  IN [ctxs |-> tracked_value(S.ctxs, c, w),
      vals |-> Append(S.vals, m_value(c, v)),
      w |-> w]

\* ------------------------------------------------------- Error Translator
\* CopyString(std::string): malloc(len + 1), memcpy, a terminating 0
CopyString(s) == <<s>>

\* CopyString(String::Utf8Value&): nullptr when value.length() == 0
CopyStringUtf8(s) == IF Len(s) = 0 THEN NullStr ELSE CopyString(s)

\* What a TryCatch holds when a V8 call came back empty: whether execution
\* was terminated, the text String::Utf8Value makes of Exception() (empty
\* when nothing was thrown or the thrown value converts to ""), Message()
\* (<<>> when empty, else the ResourceName of its script origin, <<>> when
\* that is undefined, and its line and column, each a Maybe) and
\* StackTrace() (<<>> when empty)
TryCatch(term, exc, msg, stack) ==
  [terminated |-> term, exc |-> exc, msg |-> msg, stack |-> stack]
Message(origin, line, col) == [origin |-> origin, line |-> line, col |-> col]

TCNothing == TryCatch(FALSE, "", <<>>, <<>>)
\* String::Utf8Value of a ResourceName: ToString of undefined is "undefined"
Utf8Value(name) == IF name = <<>> THEN "undefined" ELSE name[1]

TCThrown(text, origin) ==
  TryCatch(FALSE, text, <<Message(origin, <<1>>, <<0>>)>>,
           <<text \o "\n    at " \o Utf8Value(origin)>>)

TerminatedMsg == "ExecutionTerminated: script execution has been terminated"

\* sb << *origin; if (line.IsJust()) sb << ":" << line;
\* if (start.IsJust()) sb << ":" << start + 1
Location(m) ==
  Utf8Value(m.origin)
  \o (IF m.line # <<>> THEN ":" \o ToString(m.line[1]) ELSE "")
  \o (IF m.col # <<>> THEN ":" \o ToString(m.col[1] + 1) ELSE "")

\* ExceptionError without the return in the HasTerminated branch
ExceptionError_fallthrough(tc) ==
  [msg |-> IF tc.terminated THEN CopyString(TerminatedMsg) ELSE CopyStringUtf8(tc.exc),
   location |-> IF tc.msg # <<>> THEN CopyString(Location(tc.msg[1])) ELSE NullStr,
   stack |-> IF tc.stack # <<>> THEN CopyStringUtf8(tc.stack[1]) ELSE NullStr]

ExceptionError(tc) ==
  IF tc.terminated
  THEN [msg |-> CopyString(TerminatedMsg), location |-> NullStr, stack |-> NullStr]
  ELSE [msg |-> CopyStringUtf8(tc.exc),
        location |-> IF tc.msg # <<>> THEN CopyString(Location(tc.msg[1])) ELSE NullStr,
        stack |-> IF tc.stack # <<>> THEN CopyStringUtf8(tc.stack[1]) ELSE NullStr]

\* -------------------------------------------------------- Callback Bridge
\* goContext(ctx_ref): the host's lookup of the m_ctx registered under the
\* identity; -1 when none is registered
goContext(cs, ref) ==
  IF \E c \in UserCtxIds : cs[c].st = "live" /\ cs[c].ref = ref
  THEN CHOOSE c \in UserCtxIds : cs[c].st = "live" /\ cs[c].ref = ref
  ELSE -1

\* the loop of FunctionTemplateCallback: args[i] = tracked_value(ctx, val)
RECURSIVE WrapArgs(_, _, _)
WrapArgs(S, c, args) ==
  IF args = <<>>
  THEN [ctxs |-> S.ctxs, vals |-> S.vals, ws |-> <<>>]
  ELSE LET r == Wrap(S, c, Head(args))
           q == WrapArgs(r, c, Tail(args))
       IN [ctxs |-> q.ctxs, vals |-> q.vals, ws |-> <<r.w>> \o q.ws]

\* FunctionTemplateCallback tracking the receiver and the arguments in the
\* internal context, as the value constructors do
FunctionTemplateCallback_internal(S, info) ==
  LET ctx_ref == S.ctxs[info.cur].ref
      ctx == isolateInternalContext
      t == Wrap(S, ctx, info.this)
      a == WrapArgs(t, ctx, info.args)
  IN [ctxs |-> a.ctxs, vals |-> a.vals, ctx |-> ctx,
      call |-> [ctx_ref |-> ctx_ref, callback_ref |-> info.data,
                thisAndArgs |-> <<t.w>> \o a.ws,
                args_count |-> Len(info.args), info |-> info]]

\* FunctionTemplateCallback(info) up to the dispatch: info.cur is the V8
\* context iso->GetCurrentContext() returns, info.data the callback_ref,
\* info.this and info.args the receiver and the arguments of the call
FunctionTemplateCallback(S, info) ==
  LET ctx_ref == S.ctxs[info.cur].ref
      ctx == goContext(S.ctxs, ctx_ref)
      t == Wrap(S, ctx, info.this)
      a == WrapArgs(t, ctx, info.args)
  IN [ctxs |-> a.ctxs, vals |-> a.vals, ctx |-> ctx,
      call |-> [ctx_ref |-> ctx_ref, callback_ref |-> info.data,
                thisAndArgs |-> <<t.w>> \o a.ws,
                args_count |-> Len(info.args), info |-> info]]

\* the tail of FunctionTemplateCallback with the branches swapped
ReturnValue_swapped(vs, val) == IF val = nullptr THEN vs[1].v ELSE JSUndefined

\* the tail of FunctionTemplateCallback: val is what goFunctionCallback
\* returned; the result is info.GetReturnValue()
ReturnValue(vs, val) == IF val # nullptr THEN vs[val].v ELSE JSUndefined

\* ---------------------------------------------------------------- Isolate
\* NewIsolate: the internal context is created with the Isolate
NewIsolate ==
  [c \in CtxIds |->
     IF c = isolateInternalContext
     THEN [st |-> "live", ptr |-> "set", vals |-> <<>>, ref |-> 0, fns |-> {}]
     ELSE NoCtx]

\* the host threads that call the entry points
Threads == {1, 2}

\* where a thread stands: the entry point it is in ("idle" when in none),
\* the ctx it was given and whether another thread has used the records
\* of that call while it was in it
Frame(op, h) == [op |-> op, h |-> h, raced |-> FALSE]
Idle == Frame("idle", -1)

Init ==
  /\ iso = "live"
  /\ ctxs = NewIsolate
  /\ vals = <<>>
  /\ last = Outcome("NewIsolate", -1, 0)
  /\ termination = [called |-> FALSE, requested |-> FALSE, unwinding |-> FALSE]
  /\ running = -1
  /\ promises = <<>>
  /\ tmpls = <<>>
  /\ locker = 0
  /\ pc = [t \in Threads |-> Idle]

\* the loop of ContextFree walking the vector from its end
RECURSIVE ReleaseVals_reverse(_, _)
ReleaseVals_reverse(vs, reg) ==
  IF reg = <<>>
  THEN [vals |-> vs, trace |-> <<>>]
  ELSE LET w == reg[Len(reg)]
           r == ReleaseVals_reverse([vs EXCEPT ![w] = FreedVal(@)],
                                    SubSeq(reg, 1, Len(reg) - 1))
       IN [vals |-> r.vals,
           trace |-> <<Ev("ResetVal", w), Ev("DeleteVal", w)>> \o r.trace]

\* the loop of ContextFree stopping after the first entry
ReleaseVals_first(vs, reg) ==
  IF reg = <<>>
  THEN [vals |-> vs, trace |-> <<>>]
  ELSE [vals |-> [vs EXCEPT ![Head(reg)] = FreedVal(@)],
        trace |-> <<Ev("ResetVal", Head(reg)), Ev("DeleteVal", Head(reg))>>]

\* the loop of ContextFree: for (m_value* val : ctx->vals)
\*   { val->ptr.Reset(); delete val; }
RECURSIVE ReleaseVals(_, _)
ReleaseVals(vs, reg) ==
  IF reg = <<>>
  THEN [vals |-> vs, trace |-> <<>>]
  ELSE LET w == Head(reg)
           r == ReleaseVals([vs EXCEPT ![w] = FreedVal(@)], Tail(reg))
       IN [vals |-> r.vals,
           trace |-> <<Ev("ResetVal", w), Ev("DeleteVal", w)>> \o r.trace]

\* ContextFree releasing the wrappers of the internal context with those
\* of ctx
ContextFreeLive_default(S, c) ==
  LET r == ReleaseVals(S.vals, S.ctxs[c].vals \o S.ctxs[isolateInternalContext].vals)
  IN [ctxs |-> [S.ctxs EXCEPT ![c] = FreedCtx(@)],
      vals |-> r.vals,
      trace |-> <<Ev("ResetCtx", c)>> \o r.trace \o <<Ev("DeleteCtx", c)>>]

\* ContextFree on a ctx whose record is allocated:
\*   ctx->ptr.Reset(); the loop; delete ctx
ContextFreeLive(S, c) ==
  LET r == ReleaseVals(S.vals, S.ctxs[c].vals)
  IN [ctxs |-> [S.ctxs EXCEPT ![c] = FreedCtx(@)],
      vals |-> r.vals,
      trace |-> <<Ev("ResetCtx", c)>> \o r.trace \o <<Ev("DeleteCtx", c)>>]

\* ---------------------------------------------------------------- Context
\* the global templates the host passes, each given by the callback refs of
\* the function templates set on it; a null global_template_ptr stands for
\* ObjectTemplate::New(iso), which has none
GlobalTemplates == {{}, {1}}

\* NewContext(iso, global_template_ptr, ref): ref is the identity the host
\* registers the new ctx under
NewContext(t) ==
  /\ Running /\ iso = "live"
  /\ \E c \in UserCtxIds :
       /\ ctxs[c].st = "unalloc"
       /\ \A d \in UserCtxIds : d < c => ctxs[d].st # "unalloc"
       /\ ctxs' = [ctxs EXCEPT ![c] =
                     [st |-> "live", ptr |-> "set", vals |-> <<>>, ref |-> c,
                      fns |-> t]]
       /\ last' = [Outcome("NewContext", -1, 0) EXCEPT !.ctx = c]
  /\ UNCHANGED <<iso, vals>>

\* ContextFree(ctx): h = -1 is a null ctx
ContextFree(h) ==
  /\ Running
  /\ IF h = -1
     THEN /\ last' = Outcome("ContextFree", h, 0)
          /\ UNCHANGED <<ctxs, vals>>
     ELSE IF ctxs[h].st = "live" /\ iso = "live"
     THEN LET r == ContextFreeLive([ctxs |-> ctxs, vals |-> vals], h)
          IN /\ ctxs' = r.ctxs
             /\ vals' = r.vals
             /\ last' = [Outcome("ContextFree", h, 0) EXCEPT !.trace = r.trace]
     ELSE \* ctx was deleted, or its Isolate disposed: ctx->ptr.Reset() and
          \* the loop run on freed memory and delete runs a second time
          /\ \E f \in {"crash", "corrupt"} :
               last' = [Outcome("ContextFree", h, 0) EXCEPT !.fault = f]
          /\ UNCHANGED <<ctxs, vals>>
  /\ UNCHANGED iso

\* IsolateDispose without the ContextFree of the internal context
IsolateDispose_leak(h) ==
  /\ Running
  /\ IF h = 0
     THEN /\ last' = Outcome("IsolateDispose", -1, 0)
          /\ UNCHANGED <<iso, ctxs, vals>>
     ELSE /\ iso = "live"
          /\ iso' = "disposed"
          /\ last' = [Outcome("IsolateDispose", isolateInternalContext, 0)
                        EXCEPT !.trace = <<Ev("Dispose", 0)>>]
          /\ UNCHANGED <<ctxs, vals>>

\* IsolateDispose(iso): h = 0 is a null iso
IsolateDispose(h) ==
  /\ Running
  /\ IF h = 0
     THEN /\ last' = Outcome("IsolateDispose", -1, 0)
          /\ UNCHANGED <<iso, ctxs, vals>>
     ELSE IF iso = "live"
     THEN LET r == ContextFreeLive([ctxs |-> ctxs, vals |-> vals],
                                   isolateInternalContext)
          IN /\ ctxs' = r.ctxs
             /\ vals' = r.vals
             /\ iso' = "disposed"
             /\ last' = [Outcome("IsolateDispose", isolateInternalContext, 0)
                           EXCEPT !.trace = r.trace \o <<Ev("Dispose", 0)>>]
     ELSE \* iso->GetData(0) on a disposed Isolate
          /\ \E f \in {"crash", "corrupt"} :
               last' = [Outcome("IsolateDispose", isolateInternalContext, 0)
                          EXCEPT !.fault = f]
          /\ UNCHANGED <<iso, ctxs, vals>>

\* the label the host passes as origin
Origin == "o.js"

\* the scripts the host runs: what V8 does with the source.  "toolong" is
\* a source String::NewFromUtf8 cannot hold: it comes back empty and
\* nothing is thrown
Script(t, cb, args) == [t |-> t, cb |-> cb, args |-> args]

\* the argument lists of the calls: f(), f(2), f(2, 3), ...
ArgTuples == {[i \in 1..n |-> JSInt(i + 1)] : n \in 0..MaxArgs}

\* the scripts that compile and run to a value
OkScripts(c) ==
  {Script("value", 0, <<>>)}
  \cup {Script("call", cb, a) : cb \in ctxs[c].fns, a \in ArgTuples}

Scripts(c) ==
  OkScripts(c) \cup {Script(t, 0, <<>>) : t \in {"throw", "syntax", "toolong"}}

\* a script that leaves tc in the TryCatch of RunScript
Raise(tc) == [t |-> "raise", cb |-> 0, args |-> <<>>, tc |-> tc]

\* what V8 can leave in the TryCatch when a script throws or is terminated
Messages ==
  {Message(o, l, col) : o \in {<<>>, <<Origin>>}, l \in {<<>>, <<2>>}, col \in {<<>>, <<4>>}}
TryCatches ==
  {tc \in {TryCatch(t, e, m, st) :
             t \in BOOLEAN, e \in {"", "Error: x"},
             m \in {<<>>} \cup {<<x>> : x \in Messages},
             st \in {<<>>, <<"Error: x\n    at o.js:2:5">>}} :
     tc.terminated \/ tc.exc # "" \/ tc.msg # <<>>}

Failed(op, c, w, tc) ==
  [Outcome(op, c, w) EXCEPT !.error = ExceptionError(tc), !.tc = <<tc>>]

\* RunScript(ctx, source, origin)
RunScript(c, s) ==
  /\ Running /\ iso = "live" /\ ctxs[c].st = "live"
  /\ LET S == [ctxs |-> ctxs, vals |-> vals]
     IN CASE s.t = "toolong" ->
               /\ last' = Failed("RunScript", c, 0, TCNothing)
               /\ UNCHANGED <<ctxs, vals>>
          [] s.t = "syntax" ->
               /\ last' = Failed("RunScript", c, 0,
                                 TCThrown("SyntaxError: Unexpected end of input", <<Origin>>))
               /\ UNCHANGED <<ctxs, vals>>
          [] s.t = "raise" ->
               \* Compile or Run comes back empty with s.tc in the TryCatch
               /\ last' = Failed("RunScript", c, 0, s.tc)
               /\ UNCHANGED <<ctxs, vals>>
          [] s.t = "throw" ->
               /\ last' = Failed("RunScript", c, 0, TCThrown("TypeError: x", <<Origin>>))
               /\ UNCHANGED <<ctxs, vals>>
          [] s.t = "value" ->
               /\ Len(vals) < MaxVals
               /\ LET r == Wrap(S, c, JSInt(1))
                  IN /\ ctxs' = r.ctxs
                     /\ vals' = r.vals
                     /\ last' = [Outcome("RunScript", c, 0) EXCEPT
                                   !.value = r.w, !.ret = JSInt(1)]
          [] s.t = "call" ->
               \* the script is globalThis.f(args): V8 enters
               \* FunctionTemplateCallback in the context of f, the host
               \* dispatch returns h, and the script yields the call's result
               /\ Len(vals) + Len(s.args) + 2 <= MaxVals
               /\ LET f == FunctionTemplateCallback(S,
                             [cur |-> c, data |-> s.cb, this |-> JSGlobal(c),
                              args |-> s.args])
                  IN \E h \in {nullptr} \cup LiveVals(f.vals) :
                       LET result == ReturnValue(f.vals, h)
                           r == Wrap(f, c, result)
                       IN /\ ctxs' = r.ctxs
                          /\ vals' = r.vals
                          /\ last' = [Outcome("RunScript", c, 0) EXCEPT
                                        !.value = r.w, !.ret = result,
                                        !.dispatch = <<f.call @@ [rtn |-> h, ctx |-> f.ctx]>>]
  /\ UNCHANGED iso

\* what the TryCatch of RunScript holds when script->Run was terminated
TCTerminated == TryCatch(TRUE, "", <<>>, <<>>)

\* RunScript(ctx, "while (true) {}", origin) up to script->Run: the script
\* is in flight and ends only when it is terminated
RunScriptLoop(c) ==
  /\ Running /\ iso = "live" /\ ctxs[c].st = "live"
  /\ running = -1
  /\ running' = c
  /\ last' = Outcome("RunScriptLoop", c, 0)
  /\ UNCHANGED <<iso, ctxs, vals, termination>>

\* IsolateTerminateExecution(iso): iso->TerminateExecution() requests the
\* interrupt on the stack guard; it takes no lock and any thread calls it
IsolateTerminateExecution ==
  /\ Running /\ iso = "live"
  /\ termination' = [termination EXCEPT !.called = TRUE, !.requested = TRUE]
  /\ last' = Outcome("IsolateTerminateExecution", -1, 0)
  /\ UNCHANGED <<iso, ctxs, vals, running>>

\* the script in flight reaches a stack check: V8 clears the request and
\* throws the termination exception, which no script handler catches
HandleInterrupts ==
  /\ Running /\ running # -1
  /\ termination.requested /\ ~termination.unwinding
  /\ termination' = [termination EXCEPT !.requested = FALSE, !.unwinding = TRUE]
  /\ UNCHANGED <<iso, ctxs, vals, last, running>>

\* the return of the RunScript in flight taking the result of script->Run
\* without the test for an empty handle
RunScriptUnwind_unchecked ==
  /\ Running /\ running # -1 /\ termination.unwinding
  /\ Len(vals) < MaxVals
  /\ LET r == Wrap([ctxs |-> ctxs, vals |-> vals], running, JSUndefined)
     IN /\ ctxs' = r.ctxs
        /\ vals' = r.vals
        /\ last' = [Outcome("RunScript", running, 0) EXCEPT
                      !.value = r.w, !.tc = <<TCTerminated>>]
  /\ running' = -1
  /\ termination' = [termination EXCEPT !.unwinding = FALSE]
  /\ UNCHANGED iso

\* the return of the RunScript in flight: script->Run comes back empty,
\* rtn.error = ExceptionError(try_catch, ...), and with the outermost call
\* left V8 drops the termination exception
RunScriptUnwind ==
  /\ Running /\ running # -1 /\ termination.unwinding
  /\ last' = Failed("RunScript", running, 0, TCTerminated)
  /\ running' = -1
  /\ termination' = [termination EXCEPT !.unwinding = FALSE]
  /\ UNCHANGED <<iso, ctxs, vals>>

\* IsolateIsExecutionTerminating(iso): iso->IsExecutionTerminating() is
\* true while the termination exception is unwinding script frames; it
\* takes no lock and any thread calls it
IsolateIsExecutionTerminating ==
  /\ Running /\ iso = "live"
  /\ last' = [Outcome("IsolateIsExecutionTerminating", -1, 0) EXCEPT
                !.ret = JSBool(termination.unwinding)]
  /\ UNCHANGED <<iso, ctxs, vals, running, termination>>

\* JSONParse(ctx, str): "toolong" is a str String::NewFromUtf8 cannot hold.
\* The error is stored and the function goes on to JSON::Parse with the
\* empty handle, which is undefined: the process aborts, or Parse comes
\* back empty with an exception
JSONParse(c, str) ==
  /\ Running /\ iso = "live" /\ ctxs[c].st = "live"
  /\ LET S == [ctxs |-> ctxs, vals |-> vals]
     IN CASE str = "toolong" ->
               /\ \/ last' = [Failed("JSONParse", c, 0, TCNothing) EXCEPT !.fault = "crash"]
                  \/ last' = Failed("JSONParse", c, 0,
                                    TCThrown("SyntaxError: Unexpected end of JSON input", <<>>))
               /\ UNCHANGED <<ctxs, vals>>
          [] str = "invalid" ->
               /\ last' = Failed("JSONParse", c, 0,
                                 TCThrown("SyntaxError: Unexpected token", <<>>))
               /\ UNCHANGED <<ctxs, vals>>
          [] str = "valid" ->
               /\ Len(vals) < MaxVals
               /\ LET r == Wrap(S, c, JSObject(c))
                  IN /\ ctxs' = r.ctxs
                     /\ vals' = r.vals
                     /\ last' = [Outcome("JSONParse", c, 0) EXCEPT
                                   !.value = r.w, !.ret = JSObject(c)]
  /\ UNCHANGED iso

\* ContextGlobal(ctx)
ContextGlobal(c) ==
  /\ Running /\ iso = "live" /\ ctxs[c].st = "live"
  /\ Len(vals) < MaxVals
  /\ LET r == Wrap([ctxs |-> ctxs, vals |-> vals], c, JSGlobal(c))
     IN /\ ctxs' = r.ctxs
        /\ vals' = r.vals
        /\ last' = [Outcome("ContextGlobal", c, 0) EXCEPT !.value = r.w]
  /\ UNCHANGED iso

\* ---------------------------------------------------------------- Promise
\* a promise object of the V8 heap: its state, its result and the
\* reactions Then and Catch attached while it was pending
NewPromise == [state |-> "pending", result |-> JSUndefined, reactions |-> <<>>]

\* a reaction: the callback refs of the Function::New handlers (0 when the
\* call gave none), the V8 context they were made in and the promise that
\* Then or Catch returned
Reaction(onFulfilled, onRejected, cur, derived) ==
  [onFulfilled |-> onFulfilled, onRejected |-> onRejected, cur |-> cur,
   derived |-> derived]

\* the engine settling a promise that is pending: each of its reactions
\* becomes a job of the microtask queue; a settled promise stays as it is
Settle(E, id, state, x) ==
  IF E.promises[id].state # "pending"
  THEN E
  ELSE LET rs == E.promises[id].reactions
       IN [E EXCEPT
             !.promises[id] = [state |-> state, result |-> x, reactions |-> <<>>],
             !.queue = @ \o [i \in 1..Len(rs) |-> [promise |-> id, rx |-> rs[i]]]]

\* the microtask checkpoint: the jobs run in queue order until the queue is
\* empty.  A job with a handler enters FunctionTemplateCallback in the
\* context the handler was made in, with the result of the promise as the
\* one argument; the host dispatch returns the wrapper of that argument
\* (echo) or nullptr, and the return value fulfils the derived promise.
\* Without a handler for the state the derived promise takes the state over
RECURSIVE RunMicrotasks(_, _)
RunMicrotasks(E, echo) ==
  IF E.queue = <<>> \/ E.fault
  THEN E
  ELSE LET job == Head(E.queue)
           rx == job.rx
           pr == E.promises[job.promise]
           handler == IF pr.state = "fulfilled" THEN rx.onFulfilled ELSE rx.onRejected
           rest == [E EXCEPT !.queue = Tail(@)]
       IN IF handler = 0
          THEN RunMicrotasks(Settle(rest, rx.derived, pr.state, pr.result), echo)
          ELSE IF goContext(E.ctxs, E.ctxs[rx.cur].ref) = -1
          THEN [rest EXCEPT !.fault = TRUE]
          ELSE LET f == FunctionTemplateCallback(E,
                          [cur |-> rx.cur, data |-> handler, this |-> JSGlobal(rx.cur),
                           args |-> <<pr.result>>])
                   h == IF echo THEN f.call.thisAndArgs[2] ELSE nullptr
                   ran == [rest EXCEPT
                             !.ctxs = f.ctxs, !.vals = f.vals,
                             !.dispatch = Append(@, f.call @@
                                [rtn |-> h, ctx |-> f.ctx, promise |-> job.promise])]
               IN RunMicrotasks(
                    Settle(ran, rx.derived, "fulfilled", ReturnValue(f.vals, h)), echo)

\* the engine state an entry point starts from, with an empty microtask
\* queue: the queue is empty whenever an outermost call has returned
Engine ==
  [ctxs |-> ctxs, vals |-> vals, promises |-> promises, queue |-> <<>>,
   dispatch |-> <<>>, fault |-> FALSE]

\* an outermost call into V8 returning without the checkpoint
FireCallCompleted_explicit(E, echo) == E

\* an outermost call into V8 returns: the Isolate has the default
\* MicrotasksPolicy, kAuto, under which V8 runs the checkpoint itself
FireCallCompleted(E, echo) == RunMicrotasks(E, echo)

\* the new state and the outcome of an entry point that ran E
Completed(E, out) ==
  /\ Len(E.vals) <= MaxHeapVals
  /\ ctxs' = E.ctxs
  /\ vals' = E.vals
  /\ promises' = E.promises
  /\ \E f \in IF E.fault THEN {"crash", "corrupt"} ELSE {"none"} :
       last' = [out EXCEPT !.dispatch = E.dispatch, !.fault = f]
  /\ UNCHANGED iso

\* ------------------------------------------------------------------ Value
\* NewValueInteger(iso, v)
NewValueInteger(i) ==
  /\ Running /\ iso = "live"
  /\ Len(vals) < MaxVals
  /\ LET r == Wrap([ctxs |-> ctxs, vals |-> vals], isolateInternalContext, JSInt(i))
     IN /\ ctxs' = r.ctxs
        /\ vals' = r.vals
        /\ last' = [Outcome("NewValueInteger", -1, 0) EXCEPT !.value = r.w]
  /\ UNCHANGED iso

\* NewValueString(iso, v): "toolong" is a v String::NewFromUtf8 cannot hold
NewValueString(str) ==
  /\ Running /\ iso = "live"
  /\ IF str = "toolong"
     THEN /\ last' = Failed("NewValueString", -1, 0, TCNothing)
          /\ UNCHANGED <<ctxs, vals>>
     ELSE /\ Len(vals) < MaxVals
          /\ LET r == Wrap([ctxs |-> ctxs, vals |-> vals], isolateInternalContext,
                           JSString(1))
             IN /\ ctxs' = r.ctxs
                /\ vals' = r.vals
                /\ last' = [Outcome("NewValueString", -1, 0) EXCEPT !.value = r.w]
  /\ UNCHANGED iso

\* the SymbolIndex values BuiltinSymbol knows: SYMBOL_ASYNC_ITERATOR ..
\* SYMBOL_UNSCOPABLES
SymbolIndexes == 1..11

\* BuiltinSymbol(iso, idx): the default of the switch returns nullptr
BuiltinSymbol(idx) ==
  /\ Running /\ iso = "live"
  /\ IF idx \in SymbolIndexes
     THEN /\ Len(vals) < MaxVals
          /\ LET r == Wrap([ctxs |-> ctxs, vals |-> vals], isolateInternalContext,
                           JSSymbol(idx))
             IN /\ ctxs' = r.ctxs
                /\ vals' = r.vals
                /\ last' = [Outcome("BuiltinSymbol", -1, 0) EXCEPT
                              !.value = r.w, !.ret = JSSymbol(idx)]
     ELSE /\ last' = Outcome("BuiltinSymbol", -1, 0)
          /\ UNCHANGED <<ctxs, vals>>
  /\ UNCHANGED iso

\* LOCAL_VALUE taking the internal context whatever val->ctx is
LocalValueCtx_internal(r) == isolateInternalContext

\* LOCAL_VALUE(val): m_ctx* ctx = val->ctx, or the internal context when
\* val->ctx is null (-1)
LocalValueCtx(r) == IF r.ctx # -1 THEN r.ctx ELSE isolateInternalContext

\* LOCAL_VALUE reads val->iso, val->ctx, ctx->ptr.Get(iso) and
\* val->ptr.Get(iso): defined only while the m_value and its m_ctx are
\* allocated, their persistent references set and the Isolate not disposed
Resolvable(w) ==
  /\ iso = "live"
  /\ vals[w].st = "live" /\ vals[w].ptr = "set"
  /\ ctxs[LocalValueCtx(vals[w])].st = "live"
  /\ ctxs[LocalValueCtx(vals[w])].ptr = "set"

\* an entry point that went through a pointer that is not Resolvable: the
\* macro has no check, so the read is of freed memory.  A build either
\* aborts or carries on with what the freed memory holds
Undefined(op, c, w, silent) ==
  /\ \E f \in {"crash", silent} : last' = [Outcome(op, c, w) EXCEPT !.fault = f]
  /\ UNCHANGED <<iso, ctxs, vals>>

IsObject(v) == v.k \in {"object", "global", "function"}

\* ValueIsString(ptr), one of the family of predicates
ValueIsString(w) ==
  /\ Running
  /\ IF Resolvable(w)
     THEN /\ last' = [Outcome("ValueIsString", -1, w) EXCEPT
                        !.ret = JSBool(vals[w].v.k = "string")]
          /\ UNCHANGED <<iso, ctxs, vals>>
     ELSE Undefined("ValueIsString", -1, w, "stale")

\* the Maybe<int32_t> of value->Int32Value(local_ctx): <<>> is Nothing.
\* ToNumber throws a TypeError for a Symbol; every other value of the model
\* converts, a value that is not a number to NaN and so to 0
Int32Value(v) ==
  CASE v.k = "symbol" -> <<>>
    [] v.k = "int" -> <<v.n>>
    [] v.k = "boolean" -> <<v.n>>
    [] OTHER -> <<0>>

\* Maybe<T>::ToChecked(): V8 reports "Maybe value is Nothing" through its
\* fatal error handler, which aborts the process
ToChecked(op, w, maybe) ==
  IF maybe = <<>>
  THEN last' = [Outcome(op, -1, w) EXCEPT !.fault = "abort"]
  ELSE last' = [Outcome(op, -1, w) EXCEPT !.ret = JSInt(maybe[1])]

\* ValueToInt32(ptr): return value->Int32Value(local_ctx).ToChecked()
ValueToInt32(w) ==
  /\ Running
  /\ IF Resolvable(w)
     THEN /\ ToChecked("ValueToInt32", w, Int32Value(vals[w].v))
          /\ UNCHANGED <<iso, ctxs, vals>>
     ELSE Undefined("ValueToInt32", -1, w, "stale")

\* ValueToObject(ptr): ToObject throws for undefined
ValueToObject(w) ==
  /\ Running
  /\ IF Resolvable(w)
     THEN LET ctx == LocalValueCtx(vals[w])
              obj == IF IsObject(vals[w].v) THEN vals[w].v ELSE JSObject(ctx)
          IN IF vals[w].v.k = "undefined"
             THEN /\ last' = Failed("ValueToObject", -1, w,
                       TCThrown("TypeError: Cannot convert undefined or null to object", <<>>))
                  /\ UNCHANGED <<iso, ctxs, vals>>
             ELSE /\ Len(vals) < MaxVals
                  /\ LET r == Wrap([ctxs |-> ctxs, vals |-> vals], ctx, obj)
                     IN /\ ctxs' = r.ctxs
                        /\ vals' = r.vals
                        /\ last' = [Outcome("ValueToObject", -1, w) EXCEPT
                                      !.value = r.w, !.ret = obj]
                  /\ UNCHANGED iso
     ELSE Undefined("ValueToObject", -1, w, "corrupt")

\* what obj->Get(local_ctx, key) yields: the native function the global
\* template put under the key, else undefined
GetProperty(v, key) ==
  IF v.k = "global" /\ key \in ctxs[v.c].fns THEN JSFunction(v.c, key) ELSE JSUndefined

\* ObjectGet(ptr, key): key is the callback ref a function is stored under,
\* or -1 for a key String::NewFromUtf8 cannot hold; throws says whether
\* the lookup runs a getter that throws
ObjectGet(w, key, throws) ==
  /\ Running
  /\ IF Resolvable(w)
     THEN /\ IsObject(vals[w].v)
          /\ IF key = -1
             THEN /\ last' = Failed("ObjectGet", -1, w, TCNothing)
                  /\ UNCHANGED <<iso, ctxs, vals>>
             ELSE IF throws
             THEN /\ last' = Failed("ObjectGet", -1, w, TCThrown("Error: getter", <<Origin>>))
                  /\ UNCHANGED <<iso, ctxs, vals>>
             ELSE /\ Len(vals) < MaxVals
                  /\ LET result == GetProperty(vals[w].v, key)
                         r == Wrap([ctxs |-> ctxs, vals |-> vals],
                                   LocalValueCtx(vals[w]), result)
                     IN /\ ctxs' = r.ctxs
                        /\ vals' = r.vals
                        /\ last' = [Outcome("ObjectGet", -1, w) EXCEPT
                                      !.value = r.w, !.ret = result]
                  /\ UNCHANGED iso
     ELSE Undefined("ObjectGet", -1, w, "corrupt")

\* FunctionTemplateGetFunction(ptr, ctx): the function template is given by
\* its callback_ref; GetFunction runs no script
FunctionTemplateGetFunction(cb, c) ==
  /\ Running /\ iso = "live" /\ ctxs[c].st = "live"
  /\ Len(vals) < MaxVals
  /\ LET r == Wrap([ctxs |-> ctxs, vals |-> vals], c, JSFunction(c, cb))
     IN /\ ctxs' = r.ctxs
        /\ vals' = r.vals
        /\ last' = [Outcome("FunctionTemplateGetFunction", c, 0) EXCEPT
                      !.value = r.w, !.ret = JSFunction(c, cb)]
  /\ UNCHANGED iso

\* buildCallArguments: argv[i] = args[i]->ptr.Get(iso)
buildCallArguments(vs, args) == [i \in 1..Len(args) |-> vs[args[i]].v]

\* FunctionCall(ptr, recv, argc, args) of a native function: fn->Call
\* enters FunctionTemplateCallback in the context the function was made in;
\* cap is the number of m_value records the run may allocate
FunctionCallIn(cap, w, recv, args) ==
  /\ Running
  /\ IF Resolvable(w) /\ Resolvable(recv) /\ \A i \in 1..Len(args) : Resolvable(args[i])
     THEN /\ vals[w].v.k = "function"
          /\ LET S == [ctxs |-> ctxs, vals |-> vals]
                 ctx == LocalValueCtx(vals[w])
                 fn == vals[w].v
                 f == FunctionTemplateCallback(S,
                        [cur |-> fn.c, data |-> fn.n, this |-> vals[recv].v,
                         args |-> buildCallArguments(vals, args)])
             IN IF goContext(ctxs, ctxs[fn.c].ref) = -1
                THEN \* no ctx is registered under the identity: tracked_value
                     \* is handed what the failed lookup left
                     Undefined("FunctionCall", -1, w, "corrupt")
                ELSE /\ Len(vals) + Len(args) + 2 <= cap
                     /\ \E h \in {nullptr} \cup LiveVals(f.vals) :
                          LET result == ReturnValue(f.vals, h)
                              r == Wrap(f, ctx, result)
                          IN /\ ctxs' = r.ctxs
                             /\ vals' = r.vals
                             /\ last' = [Outcome("FunctionCall", -1, w) EXCEPT
                                           !.value = r.w, !.ret = result,
                                           !.dispatch = <<f.call @@ [rtn |-> h, ctx |-> f.ctx]>>]
                     /\ UNCHANGED iso
     ELSE Undefined("FunctionCall", -1, w, "corrupt")

FunctionCall(w, recv, args) == FunctionCallIn(MaxVals, w, recv, args)


\* ------------------------------------------------- Promise entry points
\* NewPromiseResolver(ctx)
NewPromiseResolver(c) ==
  /\ Running /\ iso = "live" /\ ctxs[c].st = "live"
  /\ LET id == Len(promises) + 1
         E == [Engine EXCEPT !.promises = Append(@, NewPromise)]
         r == Wrap(FireCallCompleted(E, FALSE), c, JSPromise(id, c))
     IN Completed([E EXCEPT !.ctxs = r.ctxs, !.vals = r.vals],
                  [Outcome("NewPromiseResolver", c, 0) EXCEPT
                     !.value = r.w, !.ret = JSPromise(id, c)])

\* PromiseResolverGetPromise(ptr): the resolver is the promise object
PromiseResolverGetPromise(w) ==
  /\ Running
  /\ IF Resolvable(w)
     THEN /\ vals[w].v.k = "promise"
          /\ LET r == Wrap(Engine, LocalValueCtx(vals[w]), vals[w].v)
             IN Completed([Engine EXCEPT !.ctxs = r.ctxs, !.vals = r.vals],
                          [Outcome("PromiseResolverGetPromise", -1, w) EXCEPT
                             !.value = r.w, !.ret = vals[w].v])
     ELSE Undefined("PromiseResolverGetPromise", -1, w, "corrupt") /\ UNCHANGED promises

\* resolver->Resolve / resolver->Reject(local_ctx, val->ptr.Get(iso))
\* .ToChecked(): both come back Just(true)
ResolverSettle(op, state, w, v, echo) ==
  /\ Running
  /\ IF Resolvable(w) /\ Resolvable(v)
     THEN /\ vals[w].v.k = "promise"
          /\ Completed(
               FireCallCompleted(Settle(Engine, vals[w].v.n, state, vals[v].v), echo),
               [Outcome(op, -1, w) EXCEPT !.arg = v, !.ret = JSBool(TRUE)])
     ELSE Undefined(op, -1, w, "corrupt") /\ UNCHANGED promises

\* PromiseResolverResolve(ptr, resolve_val)
PromiseResolverResolve(w, v, echo) ==
  ResolverSettle("PromiseResolverResolve", "fulfilled", w, v, echo)

\* PromiseResolverReject(ptr, reject_val)
PromiseResolverReject(w, v, echo) ==
  ResolverSettle("PromiseResolverReject", "rejected", w, v, echo)

\* Promise::PromiseState: kPending, kFulfilled, kRejected
PromiseStateCode(state) ==
  CASE state = "pending" -> 0 [] state = "fulfilled" -> 1 [] state = "rejected" -> 2

\* PromiseState(ptr)
PromiseState(w) ==
  /\ Running
  /\ IF Resolvable(w)
     THEN /\ vals[w].v.k = "promise"
          /\ last' = [Outcome("PromiseState", -1, w) EXCEPT
                        !.ret = JSInt(PromiseStateCode(promises[vals[w].v.n].state))]
          /\ UNCHANGED <<iso, ctxs, vals, promises>>
     ELSE Undefined("PromiseState", -1, w, "stale") /\ UNCHANGED promises

\* the body of PromiseThen, PromiseThen2 and PromiseCatch: the handlers are
\* made with Function::New in local_ctx, promise->Then attaches them (or
\* queues the job when the promise is settled), and the wrapper of the
\* promise Then returned is tracked after the call into V8 has returned
Then(op, w, onFulfilled, onRejected, echo) ==
  /\ Running
  /\ IF Resolvable(w)
     THEN /\ vals[w].v.k = "promise"
          /\ LET id == vals[w].v.n
                 ctx == LocalValueCtx(vals[w])
                 derived == Len(promises) + 1
                 rx == Reaction(onFulfilled, onRejected, ctx, derived)
                 E0 == [Engine EXCEPT !.promises = Append(@, NewPromise)]
                 E1 == IF promises[id].state = "pending"
                       THEN [E0 EXCEPT !.promises[id].reactions = Append(@, rx)]
                       ELSE [E0 EXCEPT !.queue = <<[promise |-> id, rx |-> rx]>>]
                 E2 == FireCallCompleted(E1, echo)
                 r == Wrap(E2, ctx, JSPromise(derived, ctx))
             IN IF E2.fault
                THEN Completed(E2, [Outcome(op, -1, w) EXCEPT !.arg = derived])
                ELSE Completed([E2 EXCEPT !.ctxs = r.ctxs, !.vals = r.vals],
                               [Outcome(op, -1, w) EXCEPT
                                  !.arg = derived, !.value = r.w,
                                  !.ret = JSPromise(derived, ctx)])
     ELSE Undefined(op, -1, w, "corrupt") /\ UNCHANGED promises

\* PromiseThen(ptr, callback_ref)
PromiseThen(w, cb, echo) == Then("PromiseThen", w, cb, 0, echo)

\* PromiseCatch(ptr, callback_ref)
PromiseCatch(w, cb, echo) == Then("PromiseCatch", w, 0, cb, echo)

\* PromiseResult tracking a wrapper of the promise in place of its result
PromiseResult_self(w) ==
  /\ Running /\ Resolvable(w)
  /\ vals[w].v.k = "promise"
  /\ promises[vals[w].v.n].state # "pending"
  /\ LET r == Wrap(Engine, LocalValueCtx(vals[w]), vals[w].v)
     IN Completed([Engine EXCEPT !.ctxs = r.ctxs, !.vals = r.vals],
                  [Outcome("PromiseResult", -1, w) EXCEPT
                     !.value = r.w, !.ret = vals[w].v])

\* PromiseResult(ptr): promise->Result() of a pending promise fails V8's
\* API check, which aborts the process
PromiseResult(w) ==
  /\ Running
  /\ IF Resolvable(w)
     THEN /\ vals[w].v.k = "promise"
          /\ IF promises[vals[w].v.n].state = "pending"
             THEN /\ last' = [Outcome("PromiseResult", -1, w) EXCEPT !.fault = "abort"]
                  /\ UNCHANGED <<iso, ctxs, vals, promises>>
             ELSE LET result == promises[vals[w].v.n].result
                      r == Wrap(Engine, LocalValueCtx(vals[w]), result)
                  IN Completed([Engine EXCEPT !.ctxs = r.ctxs, !.vals = r.vals],
                               [Outcome("PromiseResult", -1, w) EXCEPT
                                  !.value = r.w, !.ret = result])
     ELSE Undefined("PromiseResult", -1, w, "corrupt") /\ UNCHANGED promises

\* value1->SameValue(value2): the same primitive, or the same object
SameValue(x, y) == x = y

\* ValueSameValue(val1, val2)
ValueSameValue(a, b) ==
  /\ Running
  /\ IF Resolvable(a) /\ Resolvable(b)
     THEN /\ last' = [Outcome("ValueSameValue", -1, a) EXCEPT
                        !.arg = b, !.ret = JSBool(SameValue(vals[a].v, vals[b].v))]
          /\ UNCHANGED <<iso, ctxs, vals, promises>>
     ELSE Undefined("ValueSameValue", -1, a, "stale") /\ UNCHANGED promises

\* IsolatePerformMicrotaskCheckpoint(iso): iso->PerformMicrotaskCheckpoint()
IsolatePerformMicrotaskCheckpoint ==
  /\ Running /\ iso = "live"
  /\ Completed(RunMicrotasks(Engine, FALSE),
               Outcome("IsolatePerformMicrotaskCheckpoint", -1, 0))

\* ------------------------------------------------------------- Template
\* struct m_template {iso, ptr}; props is the property list of the V8
\* template ptr refers to
m_template == [st |-> "live", props |-> <<>>]

\* an entry of the property list: tmpl->Set(name, data, attributes)
Property(name, data, attributes) ==
  [name |-> name, data |-> data, attributes |-> attributes]

\* NewObjectTemplate(iso)
NewObjectTemplate ==
  /\ Running /\ iso = "live"
  /\ Len(tmpls) < MaxTmpls
  /\ tmpls' = Append(tmpls, m_template)
  /\ last' = [Outcome("NewObjectTemplate", -1, 0) EXCEPT
                !.ret = JSTemplate(Len(tmpls) + 1)]
  /\ UNCHANGED <<iso, ctxs, vals>>

\* tmpl->Set(name, data, attributes): V8's API check takes a primitive or
\* a template for data and aborts the process on an object
TemplateSet(op, t, key, arg2, data, attributes) ==
  IF IsJSReceiver(data)
  THEN /\ last' = [Outcome(op, -1, t) EXCEPT
                     !.arg = key, !.arg2 = arg2, !.fault = "abort"]
       /\ UNCHANGED tmpls
  ELSE /\ Len(tmpls[t].props) < MaxProps
       /\ tmpls' = [tmpls EXCEPT
                      ![t].props = Append(@, Property(vals[key].v, data, attributes))]
       /\ last' = [Outcome(op, -1, t) EXCEPT
                     !.arg = key, !.arg2 = arg2, !.ret = JSBool(TRUE)]

\* TemplateSetAnyValue without the IsName test
TemplateSetAnyValue_unchecked(t, key, val, attributes) ==
  /\ Running /\ iso = "live" /\ tmpls[t].st = "live"
  /\ Resolvable(key) /\ Resolvable(val)
  /\ TemplateSet("TemplateSetAnyValue", t, key, val, vals[val].v, attributes)
  /\ UNCHANGED <<iso, ctxs, vals>>

\* TemplateSetAnyValue(ptr, key, val, attributes)
TemplateSetAnyValue(t, key, val, attributes) ==
  /\ Running /\ iso = "live" /\ tmpls[t].st = "live"
  /\ Resolvable(key) /\ Resolvable(val)
  /\ IF ~IsName(vals[key].v)
     THEN /\ last' = [Outcome("TemplateSetAnyValue", -1, t) EXCEPT
                        !.arg = key, !.arg2 = val, !.ret = JSBool(FALSE)]
          /\ UNCHANGED tmpls
     ELSE TemplateSet("TemplateSetAnyValue", t, key, val, vals[val].v, attributes)
  /\ UNCHANGED <<iso, ctxs, vals>>

\* TemplateSetAnyTemplate(ptr, key, obj, attributes)
TemplateSetAnyTemplate(t, key, obj, attributes) ==
  /\ Running /\ iso = "live" /\ tmpls[t].st = "live" /\ tmpls[obj].st = "live"
  /\ Resolvable(key)
  /\ IF ~IsName(vals[key].v)
     THEN /\ last' = [Outcome("TemplateSetAnyTemplate", -1, t) EXCEPT
                        !.arg = key, !.arg2 = obj, !.ret = JSBool(FALSE)]
          /\ UNCHANGED tmpls
     ELSE TemplateSet("TemplateSetAnyTemplate", t, key, obj, JSTemplate(obj), attributes)
  /\ UNCHANGED <<iso, ctxs, vals>>

\* the handles the host holds: every ctx and every m_value it was handed,
\* released or not
CtxHandles == {c \in UserCtxIds : ctxs[c].st # "unalloc"}
ValHandles == 1..Len(vals)

\* the handles whose records are allocated in an Isolate that is not disposed
LiveCtxHandles == {c \in CtxHandles : ctxs[c].st = "live" /\ iso = "live"}
LiveValHandles == {w \in ValHandles : Resolvable(w)}
LiveIsoHandles == IF iso = "live" THEN {1} ELSE {}

\* the argument arrays of a FunctionCall for which m_value records are left
WrapperTuples(H) ==
  UNION {[1..n -> H] : n \in {k \in 0..MaxArgs : Len(vals) + k + 2 <= MaxVals}}
FunctionHandles(H) == {w \in H : vals[w].v.k = "function"}

\* ----------------------------------------------------------------- Locker
\* the entry points that open with Locker locker(iso) (ISOLATE_SCOPE,
\* LOCAL_CONTEXT, LOCAL_VALUE or the three lines themselves); ContextFree,
\* IsolateDispose and IsolateTerminateExecution open with none
Locking == {"NewContext", "NewValueInteger", "RunScript"}

\* the m_ctx records a call reads or writes: their ptr, their vals and the
\* ptr of the m_value records in vals
Uses(p) ==
  CASE p.op = "NewValueInteger" -> {isolateInternalContext}
    [] p.op = "RunScript" -> {p.h}
    [] p.op = "ContextFree" -> {p.h}
    [] p.op = "IsolateDispose" -> {isolateInternalContext}
    [] OTHER -> {}

\* the threads that are in an entry point on a record thread t is using
Overlapping(t) ==
  {u \in Threads \ {t} : pc[u].op # "idle" /\ Uses(pc[u]) \cap Uses(pc[t]) # {}}

\* a thread calls an entry point: the constructor of Locker blocks until no
\* other thread holds the Locker of the Isolate; the entry points without
\* one go ahead
Call(t, op, h) ==
  /\ Running /\ iso = "live"
  /\ pc[t].op = "idle"
  /\ h # -1 => ctxs[h].st = "live"
  /\ op \in {"NewValueInteger", "RunScript"} => Len(vals) < MaxVals
  /\ op = "NewContext" => \E c \in UserCtxIds : ctxs[c].st = "unalloc"
  /\ IF op \in Locking
     THEN locker = 0 /\ locker' = t
     ELSE UNCHANGED locker
  /\ pc' = [pc EXCEPT ![t] = Frame(op, h)]
  /\ UNCHANGED <<iso, ctxs, vals, last, termination, running, promises, tmpls>>

\* the body of the entry point a thread is in
Body(p) ==
  CASE p.op = "NewContext" ->
         NewContext({}) /\ UNCHANGED <<termination, running>>
    [] p.op = "NewValueInteger" ->
         NewValueInteger(2) /\ UNCHANGED <<termination, running>>
    [] p.op = "RunScript" ->
         RunScript(p.h, Script("value", 0, <<>>)) /\ UNCHANGED <<termination, running>>
    [] p.op = "ContextFree" ->
         ContextFree(p.h) /\ UNCHANGED <<termination, running>>
    [] p.op = "IsolateDispose" ->
         IsolateDispose(1) /\ UNCHANGED <<termination, running>>
    [] p.op = "IsolateTerminateExecution" ->
         IsolateTerminateExecution

\* a thread runs the entry point it is in and returns; the destructor of
\* its Locker, when it has one, releases the Isolate.  Two threads in entry
\* points on the same records are a data race: each of the two calls may
\* have its effect, fault, or corrupt the heap
Return(t) ==
  /\ pc[t].op # "idle"
  /\ \/ Body(pc[t])
     \/ /\ pc[t].raced \/ Overlapping(t) # {}
        /\ Running
        /\ \E f \in {"crash", "corrupt"} :
             last' = [Outcome(pc[t].op, pc[t].h, 0) EXCEPT !.fault = f]
        /\ UNCHANGED <<iso, ctxs, vals, termination, running>>
  /\ pc' = [u \in Threads |->
              IF u = t THEN Idle
              ELSE IF u \in Overlapping(t) THEN [pc[u] EXCEPT !.raced = TRUE]
              ELSE pc[u]]
  /\ locker' = IF locker = t THEN 0 ELSE locker
  /\ UNCHANGED <<promises, tmpls>>

\* The handle lifetime: the entry points that create and destroy contexts
\* and wrappers, on inputs V8 accepts and on handles that are null or not
\* released
Next ==
  \/ \E t \in GlobalTemplates : NewContext(t) /\ UNCHANGED engine
  \/ \E h \in {-1} \cup LiveCtxHandles : ContextFree(h) /\ UNCHANGED engine
  \/ \E h \in {0} \cup LiveIsoHandles : IsolateDispose(h) /\ UNCHANGED engine
  \/ \E i \in {2} : NewValueInteger(i) /\ UNCHANGED engine
  \/ \E c \in UserCtxIds : \E s \in OkScripts(c) : RunScript(c, s) /\ UNCHANGED engine
  \/ \E c \in UserCtxIds : FunctionTemplateGetFunction(1, c) /\ UNCHANGED engine
  \/ \E w \in LiveValHandles : ValueToObject(w) /\ UNCHANGED engine
  \/ \E w \in FunctionHandles(LiveValHandles) : \E recv \in LiveValHandles :
       \E args \in WrapperTuples(LiveValHandles) : FunctionCall(w, recv, args) /\ UNCHANGED engine

Spec == Init /\ [][Next]_vars

\* The fallible entry points on every input, those on which a V8 call
\* comes back empty included
NextErr ==
  \/ \E t \in GlobalTemplates : NewContext(t) /\ UNCHANGED engine
  \/ \E str \in {"a", "toolong"} : NewValueString(str) /\ UNCHANGED engine
  \/ \E c \in UserCtxIds : \E s \in Scripts(c) : RunScript(c, s) /\ UNCHANGED engine
  \/ \E c \in UserCtxIds : \E str \in {"valid", "invalid", "toolong"} : JSONParse(c, str) /\ UNCHANGED engine
  \/ \E c \in UserCtxIds : ContextGlobal(c) /\ UNCHANGED engine
  \/ \E c \in UserCtxIds : FunctionTemplateGetFunction(1, c) /\ UNCHANGED engine
  \/ \E w \in ValHandles : ValueToObject(w) /\ UNCHANGED engine
  \/ \E w \in ValHandles : \E key \in {-1, 1} : \E throws \in BOOLEAN : ObjectGet(w, key, throws) /\ UNCHANGED engine
  \/ \E w \in FunctionHandles(ValHandles) : \E recv \in ValHandles :
       \E args \in WrapperTuples(ValHandles) : FunctionCall(w, recv, args) /\ UNCHANGED engine

SpecErr == Init /\ [][NextErr]_vars

\* The conversions of a value to a number, on every kind of value a
\* constructor or a script hands the host
NextConv ==
  \/ \E t \in GlobalTemplates : NewContext(t) /\ UNCHANGED engine
  \/ \E i \in {2} : NewValueInteger(i) /\ UNCHANGED engine
  \/ \E str \in {"a"} : NewValueString(str) /\ UNCHANGED engine
  \/ \E idx \in {0, 4} : BuiltinSymbol(idx) /\ UNCHANGED engine
  \/ \E c \in UserCtxIds : ContextGlobal(c) /\ UNCHANGED engine
  \/ \E w \in LiveValHandles : ValueIsString(w) /\ UNCHANGED engine
  \/ \E w \in LiveValHandles : ValueToInt32(w) /\ UNCHANGED engine

SpecConv == Init /\ [][NextConv]_vars

\* The Error Translator on every pending failure a script can leave
NextXlate ==
  \/ \E t \in GlobalTemplates : NewContext(t) /\ UNCHANGED engine
  \/ \E c \in UserCtxIds : \E tc \in TryCatches : RunScript(c, Raise(tc)) /\ UNCHANGED engine

SpecXlate == Init /\ [][NextXlate]_vars

\* what the termination entry points leave alone
engineNoTerm == <<promises, tmpls, locker, pc>>

\* Termination of a script in flight: one thread is inside RunScript, a
\* second one calls the entry points that take no lock
NextTerm ==
  \/ \E t \in GlobalTemplates : running = -1 /\ NewContext(t) /\ UNCHANGED engine
  \/ \E c \in UserCtxIds :
       running = -1 /\ RunScript(c, Script("value", 0, <<>>)) /\ UNCHANGED engine
  \/ \E c \in UserCtxIds : RunScriptLoop(c) /\ UNCHANGED engineNoTerm
  \/ running # -1 /\ IsolateTerminateExecution /\ UNCHANGED engineNoTerm
  \/ HandleInterrupts /\ UNCHANGED engineNoTerm
  \/ RunScriptUnwind /\ UNCHANGED engineNoTerm
  \/ IsolateIsExecutionTerminating /\ UNCHANGED engineNoTerm

SpecTerm == Init /\ [][NextTerm]_vars

\* what the promise entry points leave alone
engineNoPromise == <<termination, running, tmpls, locker, pc>>

PromiseHandles(H) == {w \in H : vals[w].v.k = "promise"}

\* Continuations: Then and Catch on promises that are pending or settled,
\* the resolver calls that settle them and the microtask pump, in one
\* context
NextReact ==
  \/ ctxs[1].st = "unalloc" /\ NewContext({}) /\ UNCHANGED engine
  \/ \E i \in {2} : NewValueInteger(i) /\ UNCHANGED engine
  \/ \E c \in UserCtxIds : NewPromiseResolver(c) /\ UNCHANGED engineNoPromise
  \/ \E w \in PromiseHandles(LiveValHandles) : \E echo \in BOOLEAN :
       PromiseThen(w, 1, echo) /\ UNCHANGED engineNoPromise
  \/ \E w \in PromiseHandles(LiveValHandles) : \E echo \in BOOLEAN :
       PromiseCatch(w, 2, echo) /\ UNCHANGED engineNoPromise
  \/ \E w \in PromiseHandles(LiveValHandles) :
       \E v \in LiveValHandles \ PromiseHandles(LiveValHandles) : \E echo \in BOOLEAN :
         PromiseResolverResolve(w, v, echo) /\ UNCHANGED engineNoPromise
  \/ \E w \in PromiseHandles(LiveValHandles) :
       \E v \in LiveValHandles \ PromiseHandles(LiveValHandles) : \E echo \in BOOLEAN :
         PromiseResolverReject(w, v, echo) /\ UNCHANGED engineNoPromise
  \/ IsolatePerformMicrotaskCheckpoint /\ UNCHANGED engineNoPromise

SpecReact == Init /\ [][NextReact]_vars

\* Settling: the resolver calls and what the promise then reports, while
\* m_value records are left
NextSettle ==
  \/ \E t \in GlobalTemplates : NewContext(t) /\ UNCHANGED engine
  \/ \E i \in {2} : NewValueInteger(i) /\ UNCHANGED engine
  \/ \E c \in UserCtxIds :
       Len(vals) < MaxVals /\ NewPromiseResolver(c) /\ UNCHANGED engineNoPromise
  \/ \E w \in PromiseHandles(LiveValHandles) :
       Len(vals) < MaxVals /\ PromiseResolverGetPromise(w) /\ UNCHANGED engineNoPromise
  \/ \E w \in PromiseHandles(LiveValHandles) :
       \E v \in LiveValHandles \ PromiseHandles(LiveValHandles) :
         PromiseResolverResolve(w, v, FALSE) /\ UNCHANGED engineNoPromise
  \/ \E w \in PromiseHandles(LiveValHandles) :
       \E v \in LiveValHandles :
         PromiseResolverReject(w, v, FALSE) /\ UNCHANGED engineNoPromise
  \/ \E w \in PromiseHandles(LiveValHandles) : PromiseState(w) /\ UNCHANGED engineNoPromise
  \/ \E w \in PromiseHandles(LiveValHandles) :
       Len(vals) < MaxVals /\ PromiseResult(w) /\ UNCHANGED engineNoPromise
  \/ \E a, b \in LiveValHandles : ValueSameValue(a, b) /\ UNCHANGED engineNoPromise

SpecSettle == Init /\ [][NextSettle]_vars

\* what the template entry points leave alone
engineNoTmpl == <<termination, running, promises, locker, pc>>

TmplHandles == 1..Len(tmpls)

\* PropertyAttribute: None, ReadOnly
Attributes == {0, 1}

\* The Template Builder: object templates and the two set entry points
\* that take a wrapper as key, on keys and values of every kind
NextTmpl ==
  \/ ctxs[1].st = "unalloc" /\ NewContext({}) /\ UNCHANGED engine
  \/ \E c \in UserCtxIds : ContextGlobal(c) /\ UNCHANGED engine
  \/ \E str \in {"a"} : NewValueString(str) /\ UNCHANGED engine
  \/ \E idx \in {4} : BuiltinSymbol(idx) /\ UNCHANGED engine
  \/ NewObjectTemplate /\ UNCHANGED engineNoTmpl
  \/ \E t \in TmplHandles : \E key, val \in LiveValHandles : \E a \in Attributes :
       TemplateSetAnyValue(t, key, val, a) /\ UNCHANGED engineNoTmpl
  \/ \E t \in TmplHandles : \E obj \in TmplHandles \ {t} :
       \E key \in LiveValHandles : \E a \in Attributes :
       TemplateSetAnyTemplate(t, key, obj, a) /\ UNCHANGED engineNoTmpl

SpecTmpl == Init /\ [][NextTmpl]_vars

\* The Callback Bridge across contexts: native functions made in one
\* context, handed to another by the host dispatch, and called after
\* contexts were freed, on handles that are live
NextBridge ==
  \/ NewContext({1}) /\ UNCHANGED engine
  \/ \E h \in LiveCtxHandles : ContextFree(h) /\ UNCHANGED engine
  \/ \E c \in UserCtxIds : FunctionTemplateGetFunction(1, c) /\ UNCHANGED engine
  \/ \E c \in UserCtxIds : RunScript(c, Script("call", 1, <<>>)) /\ UNCHANGED engine
  \/ \E w \in FunctionHandles(LiveValHandles) : FunctionCall(w, w, <<>>) /\ UNCHANGED engine

SpecBridge == Init /\ [][NextBridge]_vars

\* Two host threads on one Isolate: each calls an entry point and returns
\* from it, in any interleaving the Locker allows
NextLock ==
  \/ \E t \in Threads : \E op \in {"NewContext", "NewValueInteger"} : Call(t, op, -1)
  \/ \E t \in Threads : \E h \in LiveCtxHandles : Call(t, "RunScript", h)
  \/ \E t \in Threads : \E h \in LiveCtxHandles : Call(t, "ContextFree", h)
  \/ \E t \in Threads : Call(t, "IsolateDispose", -1)
  \/ \E t \in Threads : Call(t, "IsolateTerminateExecution", -1)
  \/ \E t \in Threads : Return(t)

SpecLock == Init /\ [][NextLock]_vars

\* The entry points that return a wrapper made from a wrapper: sources of
\* the internal context and of two user contexts, results that are new
\* values or values already wrapped, and calls that come back with an error
NextReg ==
  \/ NewContext({1}) /\ UNCHANGED engine
  \/ \E i \in {2} : NewValueInteger(i) /\ UNCHANGED engine
  \/ \E c \in UserCtxIds : ContextGlobal(c) /\ UNCHANGED engine
  \/ \E c \in UserCtxIds : FunctionTemplateGetFunction(1, c) /\ UNCHANGED engine
  \/ \E w \in LiveValHandles : ValueToObject(w) /\ UNCHANGED engine
  \/ \E w \in LiveValHandles : \E key \in {-1, 1} : \E throws \in BOOLEAN :
       ObjectGet(w, key, throws) /\ UNCHANGED engine
  \/ \E w \in FunctionHandles(LiveValHandles) : \E recv \in LiveValHandles :
       FunctionCallIn(MaxHeapVals, w, recv, <<>>) /\ UNCHANGED engine
  \/ \E c \in UserCtxIds :
       Len(vals) < MaxVals /\ NewPromiseResolver(c) /\ UNCHANGED engineNoPromise
  \/ \E w \in PromiseHandles(LiveValHandles) :
       Len(vals) < MaxVals /\ PromiseResolverGetPromise(w) /\ UNCHANGED engineNoPromise
  \/ \E w \in PromiseHandles(LiveValHandles) :
       \E v \in LiveValHandles \ PromiseHandles(LiveValHandles) :
         PromiseResolverResolve(w, v, FALSE) /\ UNCHANGED engineNoPromise
  \/ \E w \in PromiseHandles(LiveValHandles) :
       Len(vals) < MaxVals /\ PromiseResult(w) /\ UNCHANGED engineNoPromise
  \/ \E w \in PromiseHandles(LiveValHandles) :
       Len(vals) < MaxVals /\ PromiseThen(w, 1, FALSE) /\ UNCHANGED engineNoPromise

SpecReg == Init /\ [][NextReg]_vars

\* The host keeps a handle past its release: ContextFree, IsolateDispose and
\* the entry points that take a ValuePtr on every handle the host was handed
NextStale ==
  \/ \E t \in GlobalTemplates : NewContext(t) /\ UNCHANGED engine
  \/ \E h \in {-1} \cup CtxHandles : ContextFree(h) /\ UNCHANGED engine
  \/ \E h \in {0, 1} : IsolateDispose(h) /\ UNCHANGED engine
  \/ \E i \in {2} : NewValueInteger(i) /\ UNCHANGED engine
  \/ \E c \in UserCtxIds : RunScript(c, Script("value", 0, <<>>)) /\ UNCHANGED engine
  \/ \E c \in UserCtxIds : ContextGlobal(c) /\ UNCHANGED engine
  \/ \E c \in UserCtxIds : FunctionTemplateGetFunction(1, c) /\ UNCHANGED engine
  \/ \E w \in ValHandles : ValueIsString(w) /\ UNCHANGED engine
  \/ \E w \in ValHandles : ValueToObject(w) /\ UNCHANGED engine
  \/ \E w \in ValHandles : ObjectGet(w, 1, FALSE) /\ UNCHANGED engine
  \/ \E w \in ValHandles : FunctionCall(w, w, <<>>) /\ UNCHANGED engine

SpecStale == Init /\ [][NextStale]_vars

\* ------------------------------------------------------------- properties
Registry(c) == ctxs[c].vals
Occurrences(reg, w) == Cardinality({i \in 1..Len(reg) : reg[i] = w})
IsPrefix(p, q) == Len(p) <= Len(q) /\ SubSeq(q, 1, Len(p)) = p
Constructors == {"NewValueInteger"}

\* C1: every m_value that is allocated and not released occurs exactly once
\* in the vals of exactly one allocated m_ctx, the one its ctx field names;
\* a wrapper made by a value constructor is in the vals of the internal
\* context of the Isolate
C1_TrackedOnce ==
  /\ \A w \in ValHandles : vals[w].st = "live" =>
       /\ ctxs[vals[w].ctx].st = "live"
       /\ Occurrences(Registry(vals[w].ctx), w) = 1
       /\ \A c \in CtxIds \ {vals[w].ctx} : Occurrences(Registry(c), w) = 0
  /\ (last.op \in Constructors /\ last.value # nullptr) =>
       /\ vals[last.value].ctx = isolateInternalContext
       /\ Occurrences(Registry(isolateInternalContext), last.value) = 1

\* a constructor has just registered a wrapper with the internal context
\* while a context of the host holds wrappers of its own
C1_Witness ==
  /\ last.op \in Constructors /\ last.value # nullptr
  /\ \E c \in UserCtxIds : ctxs[c].st = "live" /\ Len(Registry(c)) >= 1

\* C2 as stated: while the context a wrapper was made under is not
\* destroyed, the persistent reference of the wrapper can be resolved,
\* whatever else was called, IsolateDispose included
C2_Original ==
  \A w \in ValHandles : ctxs[vals[w].ctx].st = "live" => Resolvable(w)

\* C2 amended: a wrapper's record is released exactly when the context it
\* was made under is destroyed, all wrappers of a context together, and
\* while that context is not destroyed and the Isolate not disposed the
\* persistent reference can be resolved
C2_ResolvableWhileOwned ==
  \A w \in ValHandles :
    /\ ctxs[vals[w].ctx].st = "live" => (vals[w].st = "live" /\ vals[w].ptr = "set")
    /\ ctxs[vals[w].ctx].st = "freed" => (vals[w].st = "freed" /\ vals[w].ptr = "reset")
    /\ (ctxs[vals[w].ctx].st = "live" /\ iso = "live") => Resolvable(w)

\* the Isolate was disposed while a context of the host still holds two
\* wrappers, and the wrappers of the internal context were released
C2_Witness ==
  /\ last.op = "IsolateDispose" /\ iso = "disposed"
  /\ \E c \in UserCtxIds : ctxs[c].st = "live" /\ Len(Registry(c)) >= 2
  /\ \E w \in ValHandles : vals[w].st = "freed"

ValueOps == {"ValueIsString", "ValueToObject", "ObjectGet", "FunctionCall"}

\* C3: after ContextFree(ctx) on a live Isolate, an entry point that
\* dereferences a wrapper created under ctx is a detected contract
\* violation: it neither crashes undetected nor reads the deleted m_value
C3_StaleUseDetected ==
  (/\ last.op \in ValueOps
   /\ iso = "live"
   /\ vals[last.val].st = "freed"
   /\ vals[last.val].ctx \in UserCtxIds
   /\ ctxs[vals[last.val].ctx].st = "freed")
    => last.fault = "detected"

\* C4: ContextFree of a ctx that was already freed, and ContextFree of a
\* null ctx, change nothing and do no harm
C4_FreeIdempotent ==
  [][\A h \in {-1} \cup UserCtxIds :
       ((h = -1 \/ ctxs[h].st = "freed") /\ last'.op = "ContextFree" /\ last'.ctx = h)
         => (last'.fault = "none" /\ UNCHANGED <<iso, ctxs, vals>>)]_vars

\* C5: a step that returns a new wrapper leaves it the last entry of the
\* vals of its context, and the vals of a context that stays allocated
\* keep every entry in place: the old vector is a prefix of the new one
C5_AppendOnly ==
  [][/\ \A c \in CtxIds : (ctxs[c].st = "live" /\ ctxs'[c].st = "live") =>
          IsPrefix(ctxs[c].vals, ctxs'[c].vals)
     /\ (last'.value # nullptr /\ last'.value > Len(vals)) =>
          LET reg == ctxs'[vals'[last'.value].ctx].vals
          IN Len(reg) >= 1 /\ reg[Len(reg)] = last'.value]_vars

\* a registry that already held an entry was appended to
C5_Witness ==
  \E c \in CtxIds : /\ ctxs[c].st = "live" /\ Len(Registry(c)) >= 2
                   /\ last.value = Registry(c)[Len(Registry(c))]

\* C6: ContextFree of an allocated ctx resets the context's own persistent
\* reference first, then resets and deletes each tracked wrapper, first
\* registered first, once each, and deletes the ctx last
C6_ReleaseOrder ==
  [][\A c \in UserCtxIds :
       (ctxs[c].st = "live" /\ last'.op = "ContextFree" /\ last'.ctx = c) =>
         LET reg == ctxs[c].vals
             tr == last'.trace
         IN /\ Len(tr) = 2 * Len(reg) + 2
            /\ tr[1] = Ev("ResetCtx", c)
            /\ \A i \in 1..Len(reg) :
                 /\ tr[2 * i] = Ev("ResetVal", reg[i])
                 /\ tr[2 * i + 1] = Ev("DeleteVal", reg[i])
                 /\ vals'[reg[i]].st = "freed"
            /\ tr[Len(tr)] = Ev("DeleteCtx", c)
            /\ ctxs'[c].st = "freed"]_vars

\* a context with two tracked wrappers was freed
C6_Witness ==
  /\ last.op = "ContextFree" /\ last.ctx \in UserCtxIds
  /\ Len(last.trace) >= 6

\* C7: IsolateDispose of an Isolate frees the internal context and resets
\* and deletes every wrapper of its vals before iso->Dispose(), so none of
\* them is left unreleased; IsolateDispose of a null iso changes nothing
C7_DisposeReleasesDefault ==
  [][/\ (iso = "live" /\ last'.op = "IsolateDispose"
           /\ last'.ctx = isolateInternalContext) =>
          LET reg == ctxs[isolateInternalContext].vals
              tr == last'.trace
          IN /\ iso' = "disposed"
             /\ ctxs'[isolateInternalContext].st = "freed"
             /\ tr[Len(tr)] = Ev("Dispose", 0)
             /\ \A i \in 1..Len(reg) :
                  /\ vals'[reg[i]].st = "freed" /\ vals'[reg[i]].ptr = "reset"
                  /\ \E j \in 1..(Len(tr) - 1) : tr[j] = Ev("ResetVal", reg[i])
             /\ \A j \in 1..(Len(tr) - 1) : tr[j].e # "Dispose"
     /\ (last'.op = "IsolateDispose" /\ last'.ctx = -1) =>
          UNCHANGED <<iso, ctxs, vals>>]_vars

\* an Isolate whose internal context tracked two wrappers was disposed
C7_Witness ==
  /\ last.op = "IsolateDispose" /\ iso = "disposed"
  /\ Len(last.trace) >= 7

C9_CallResult ==
  (last.op = "RunScript" /\ last.dispatch # <<>>) =>
     LET h == last.dispatch[1].rtn
     IN /\ h # nullptr => vals[last.value].v = vals[h].v
        /\ h = nullptr => vals[last.value].v = JSUndefined

\* the dispatch returned a wrapper the host had made before the call
C9_Witness ==
  /\ last.op = "RunScript" /\ last.dispatch # <<>>
  /\ last.dispatch[1].rtn # nullptr
  /\ last.dispatch[1].rtn < last.dispatch[1].thisAndArgs[1]
  /\ vals[last.value].v = JSInt(2)

Fallible == {"RunScript", "JSONParse", "ObjectGet", "FunctionCall",
             "FunctionTemplateGetFunction", "NewValueString", "ValueToObject"}

\* C10: a fallible entry point returns a value and no error, or no value
\* and an error
C10_ValueXorError ==
  last.op \in Fallible =>
    /\ last.fault = "none"
    /\ \/ last.value # nullptr /\ last.error = NoError
       \/ last.value = nullptr /\ last.error # NoError

\* C11: a conversion of a wrapper the host may use returns to the host: no
\* failure of the conversion inside V8 ends the process
C11_NoNativeFault ==
  (last.op = "ValueToInt32" /\ Resolvable(last.val)) => last.fault = "none"

\* the failure the Error Translator was handed by the last entry point
Pending == last.tc[1]

\* C12: the error made of a thrown exception or of a termination has a
\* message: the text of the exception, or the sentinel
C12_MessagePresent ==
  last.tc # <<>> =>
    /\ last.error.msg # NullStr
    /\ last.error.msg =
         <<IF Pending.terminated THEN TerminatedMsg ELSE Pending.exc>>

\* C13: the error made of a terminated execution is the sentinel message
\* with no location and no stack, whatever else the TryCatch holds
C13_TerminatedSentinel ==
  (last.tc # <<>> /\ Pending.terminated) =>
    last.error = [msg |-> <<TerminatedMsg>>, location |-> NullStr, stack |-> NullStr]

C13_Witness ==
  /\ last.op = "RunScript" /\ last.tc # <<>> /\ last.value = nullptr
  /\ Pending.terminated /\ Pending.exc # "" /\ Pending.msg # <<>> /\ Pending.stack # <<>>
  /\ last.error.msg = <<TerminatedMsg>>

\* the location the claim describes: each segment only when V8 supplies it
ExpectedLocation(m) ==
  (IF m.origin # <<>> THEN m.origin[1] ELSE "")
  \o (IF m.line # <<>> THEN ":" \o ToString(m.line[1]) ELSE "")
  \o (IF m.col # <<>> THEN ":" \o ToString(m.col[1] + 1) ELSE "")

\* C18: the location of a thrown exception is origin:line:column with the
\* 1-based line, the 0-based column plus one, each segment present only
\* when V8 supplies it, and no location when there is no message object
C18_Location ==
  (last.tc # <<>> /\ ~Pending.terminated) =>
    last.error.location =
      IF Pending.msg = <<>> THEN NullStr ELSE <<ExpectedLocation(Pending.msg[1])>>

\* C14 as stated: the RunScript in flight returns no value and the
\* sentinel, and once IsolateTerminateExecution was called every
\* IsolateIsExecutionTerminating reads true (no entry point resets it)
C14_Original ==
  /\ (last.op = "RunScript" /\ last.tc # <<>> /\ Pending.terminated) =>
       (last.value = nullptr /\ last.error.msg = <<TerminatedMsg>>)
  /\ (last.op = "IsolateIsExecutionTerminating" /\ termination.called) =>
       last.ret = JSBool(TRUE)

\* C14 amended: a RunScript in flight returns only terminated, with no
\* value and the sentinel; IsolateIsExecutionTerminating reads true only
\* while the termination unwinds the script in flight, and with the return
\* of that RunScript the termination is over with no call to reset it
C14_Terminate ==
  [][/\ (running # -1 /\ running' = -1) =>
          /\ termination.called
          /\ last'.op = "RunScript" /\ last'.value = nullptr
          /\ last'.error =
               [msg |-> <<TerminatedMsg>>, location |-> NullStr, stack |-> NullStr]
          /\ UNCHANGED <<ctxs, vals>>
     /\ (last'.op = "RunScript" /\ last'.tc # <<>> /\ last'.tc[1].terminated) =>
          last'.value = nullptr
     /\ (last'.op = "IsolateIsExecutionTerminating" /\ last'.ret = JSBool(TRUE)) =>
          (termination'.called /\ running' # -1)
     /\ running' = -1 => ~termination'.unwinding]_vars

C14_Witness ==
  /\ last.op = "RunScript" /\ last.tc # <<>> /\ Pending.terminated
  /\ termination.called /\ running = -1
  /\ last.error.msg = <<TerminatedMsg>>

HandlerFor(rx, state) == IF state = "fulfilled" THEN rx.onFulfilled ELSE rx.onRejected

\* the state the two resolver calls settle a pending promise to
SettlesTo(op) ==
  IF op = "PromiseResolverResolve" THEN "fulfilled" ELSE "rejected"

PromiseOf(w) == vals[w].v.n

\* C16: reject(resolver, v) on a promise that is pending leaves it rejected
\* with v as its result; state reports the state of the promise; result
\* returns a wrapper that is new, registered with the context of the
\* promise and holds the result; ValueSameValue of two wrappers is true
\* exactly when they hold the same value
C16_Reject ==
  [][ /\ ( /\ last'.op = "PromiseResolverReject"
           /\ last'.fault = "none"
           /\ promises[PromiseOf(last'.val)].state = "pending" )
         => /\ promises'[PromiseOf(last'.val)].state = "rejected"
            /\ promises'[PromiseOf(last'.val)].result = vals[last'.arg].v
            /\ last'.ret = JSBool(TRUE)
      /\ ( last'.op = "PromiseState" /\ last'.fault = "none" )
         => /\ last'.ret = JSInt(PromiseStateCode(promises[PromiseOf(last'.val)].state))
            /\ promises[PromiseOf(last'.val)].state = "rejected" => last'.ret = JSInt(2)
      /\ ( last'.op = "PromiseResult" /\ last'.fault = "none" )
         => /\ last'.value = Len(vals) + 1
            /\ Len(vals') = Len(vals) + 1
            /\ vals'[last'.value].st = "live"
            /\ vals'[last'.value].v = promises[PromiseOf(last'.val)].result
            /\ ctxs'[LocalValueCtx(vals[last'.val])].vals =
                 Append(ctxs[LocalValueCtx(vals[last'.val])].vals, last'.value)
            /\ promises' = promises
      /\ ( last'.op = "ValueSameValue" /\ last'.fault = "none" )
         => ( last'.ret = JSBool(TRUE) <=> vals[last'.val].v = vals[last'.arg].v )
    ]_vars

\* result has returned a new wrapper of the reason a promise was rejected
\* with, next to the wrapper reject was given
C16_Witness ==
  /\ last.op = "PromiseResult"
  /\ last.fault = "none"
  /\ promises[PromiseOf(last.val)].state = "rejected"
  /\ last.value = Len(vals)
  /\ \E v \in 1..(Len(vals) - 1) : vals[v].st = "live" /\ vals[v].v = vals[last.value].v

TemplateSetOps == {"TemplateSetAnyValue", "TemplateSetAnyTemplate"}

SetData(op, arg2) == IF op = "TemplateSetAnyValue" THEN vals[arg2].v ELSE JSTemplate(arg2)

C20_BridgeSandboxLive ==
  /\ last.op = "FunctionCall" => last.fault = "none"
  /\ \A i \in 1..Len(last.dispatch) :
       /\ last.dispatch[i].ctx \in UserCtxIds
       /\ ctxs[last.dispatch[i].ctx].st = "live"

\* C17: a thread that is in an entry point using a ctx, its registry or
\* the persistent references of its wrappers holds the Locker of the
\* Isolate, a thread that is in no entry point does not, and no two
\* threads are in entry points that use the same ctx
C17_Exclusive ==
  /\ \A t \in Threads :
       /\ (pc[t].op # "idle" /\ Uses(pc[t]) # {}) => locker = t
       /\ pc[t].op = "idle" => locker # t
       /\ Overlapping(t) = {}

\* the wrappers the internal context tracks
DefaultVals == {w \in 1..Len(vals) : LocalValueCtx(vals[w]) = isolateInternalContext}

\* C21: ContextFree(ctx) leaves the record and the registry of every other
\* ctx, the internal one included, and every wrapper outside the registry
\* of ctx as they were; a wrapper of the internal context is registered
\* there and live for as long as the Isolate is, and only IsolateDispose
\* releases it
C21_FreeFrame ==
  [][ /\ ( last'.op = "ContextFree" /\ last'.ctx # -1 /\ last'.fault = "none" )
         => /\ \A c \in CtxIds \ {last'.ctx} : ctxs'[c] = ctxs[c]
            /\ Len(vals') = Len(vals)
            /\ \A w \in 1..Len(vals) :
                 Occurrences(ctxs[last'.ctx].vals, w) = 0 => vals'[w] = vals[w]
            /\ iso' = iso
      /\ iso' = "live"
         => \A w \in DefaultVals' :
              /\ vals'[w].st = "live"
              /\ Occurrences(ctxs'[isolateInternalContext].vals, w) = 1
      /\ \A w \in DefaultVals :
           (vals[w].st = "live" /\ vals'[w].st # "live") => last'.op = "IsolateDispose"
    ]_vars

\* a user context with wrappers was freed while the internal context and
\* another user context hold wrappers
C21_Witness ==
  /\ last.op = "ContextFree" /\ last.fault = "none"
  /\ last.ctx # -1 /\ Len(last.trace) > 2
  /\ iso = "live"
  /\ \E w \in DefaultVals : vals[w].st = "live"
  /\ \E c \in UserCtxIds \ {last.ctx} : ctxs[c].st = "live" /\ ctxs[c].vals # <<>>

\* the entry points that make a wrapper from a wrapper
FromWrapper == {"ObjectGet", "ValueToObject", "PromiseResolverGetPromise",
                "PromiseResult", "PromiseThen", "PromiseCatch", "FunctionCall"}

\* the ctx a wrapper is tagged with, the internal one when it has none
SourceCtx(r) == IF r.ctx = -1 THEN isolateInternalContext ELSE r.ctx

\* the wrappers the Callback Bridge made for the dispatches of a call
RECURSIVE BridgeWrappers(_)
BridgeWrappers(ds) ==
  IF ds = <<>> THEN 0 ELSE Len(Head(ds).thisAndArgs) + BridgeWrappers(Tail(ds))

\* C22: a call of an entry point that makes a wrapper from a wrapper and
\* returns a value makes one result wrapper, the newest m_value, tagged
\* with the ctx of the source wrapper (of the function for FunctionCall)
\* and appended to the vals of that ctx and of no other, whether or not
\* the value is wrapped already; the only other new wrappers are those of
\* the Callback Bridge; a call in which V8 came back empty returns no
\* value and makes no wrapper
C22_ResultRegistry ==
  [][ ( last'.op \in FromWrapper /\ last'.fault = "none" )
        => LET c == SourceCtx(vals[last'.val])
               n == BridgeWrappers(last'.dispatch)
           IN IF last'.tc = <<>>
              THEN /\ Len(vals') = Len(vals) + n + 1
                   /\ last'.value = Len(vals')
                   /\ vals'[last'.value].st = "live"
                   /\ vals'[last'.value].ctx = c
                   /\ vals'[last'.value].v = last'.ret
                   /\ ctxs'[c].vals[Len(ctxs'[c].vals)] = last'.value
                   /\ \A o \in CtxIds :
                        /\ IsPrefix(ctxs[o].vals, ctxs'[o].vals)
                        /\ Occurrences(ctxs'[o].vals, last'.value) = IF o = c THEN 1 ELSE 0
                   /\ \A w \in 1..Len(vals) : vals'[w] = vals[w]
              ELSE /\ last'.value = nullptr
                   /\ vals' = vals
                   /\ ctxs' = ctxs
    ]_vars

\* a function made in the first context was called with the global object
\* of the second as receiver, and its result is tracked in the first
C22_Witness ==
  /\ last.op = "FunctionCall" /\ last.fault = "none"
  /\ last.dispatch # <<>>
  /\ last.dispatch[1].info.this = JSGlobal(2)
  /\ vals[last.val].ctx = 1
  /\ vals[last.value].ctx = 1
====
